---- MODULE Spec2Model ----
(***************************************************************************)
(* TerminJetzt Heilbronn Telegram bot (src/bot/main.py): the menu tree,    *)
(* its YAML loader, the inline-keyboard factory and the three handlers of  *)
(* the orchestrator, as a state machine.                                   *)
(*                                                                         *)
(* A Python str is a sequence of one-character strings, so that join,      *)
(* split, lower, strip and the substring test are computed, not assumed.   *)
(***************************************************************************)
EXTENDS Integers, Sequences, FiniteSets, TLC

VARIABLES
    pc,        \* "boot" before MenuLoader.__init__, then "run" or "crashed"
    doc,       \* the configuration source on disk (never written)
    channel,   \* KeyboardFactory.channel (env CHANNEL), None or a str
    forest,    \* MenuLoader.root_items
    msgs,      \* the bot's messages in the chat: text and reply_markup
    hist,      \* history: per message, the kind of the last press on it
               \* and the token of the last press that showed an answer
    asked,     \* history: the texts on_fallback has looked up
    cache,     \* lru_cache of _search: most recently used entry first
    reply      \* the last reply_to sent by on_fallback

vars == <<pc, doc, channel, forest, msgs, hist, asked, cache, reply>>

-----------------------------------------------------------------------------
(* Python values *)

\* None where a str is expected: one fragment no str of characters can equal.
None == <<"<None>">>

\* Optional[MenuItem] None.
NoItem == [id |-> None, text |-> None, answer |-> None, children |-> <<>>,
           oid |-> <<0>>]

\* bool(s) of an Optional[str].
Truthy(s) == s # None /\ s # <<>>

RECURSIVE Join(_, _)
\* sep.join(parts), parts a list of str.
Join(parts, sep) ==
    IF parts = <<>> THEN <<>>
    ELSE IF Len(parts) = 1 THEN parts[1]
    ELSE parts[1] \o sep \o Join(Tail(parts), sep)

\* The first index of character c in s, 0 when there is none.
IndexOf(s, c) ==
    IF \E i \in 1..Len(s) : s[i] = c
    THEN CHOOSE i \in 1..Len(s) : s[i] = c /\ \A j \in 1..(i - 1) : s[j] # c
    ELSE 0

RECURSIVE Split(_, _)
\* s.split(c) for a one-character separator: never an empty list.
Split(s, c) ==
    LET i == IndexOf(s, c) IN
    IF i = 0 THEN <<s>>
    ELSE <<SubSeq(s, 1, i - 1)>> \o Split(SubSeq(s, i + 1, Len(s)), c)

Whitespace == {" "}

RECURSIVE SplitWords(_)
\* s.split(): the maximal runs of non-whitespace characters.
SplitWords(s) ==
    IF s = <<>> THEN <<>>
    ELSE IF s[1] \in Whitespace THEN SplitWords(Tail(s))
    ELSE LET ws == {i \in 1..Len(s) : s[i] \in Whitespace}
             e  == IF ws = {} THEN Len(s) + 1
                   ELSE CHOOSE i \in ws : \A j \in ws : i <= j
         IN <<SubSeq(s, 1, e - 1)>> \o SplitWords(SubSeq(s, e, Len(s)))

LowerChar(c) ==
    CASE c = "A" -> "a" [] c = "B" -> "b" [] c = "C" -> "c" [] c = "D" -> "d"
      [] c = "E" -> "e" [] c = "O" -> "o" [] c = "Q" -> "q" [] c = "R" -> "r"
      [] c = "T" -> "t" [] c = "W" -> "w" [] c = "X" -> "x" [] c = "Y" -> "y"
      [] c = "Z" -> "z" [] OTHER -> c

\* s.lower()
Lower(s) == [i \in 1..Len(s) |-> LowerChar(s[i])]

RECURSIVE LStrip(_, _)
\* s.lstrip(chars)
LStrip(s, chars) ==
    IF s # <<>> /\ s[1] \in chars THEN LStrip(Tail(s), chars) ELSE s

RECURSIVE RStrip(_, _)
RStrip(s, chars) ==
    IF s # <<>> /\ s[Len(s)] \in chars
    THEN RStrip(SubSeq(s, 1, Len(s) - 1), chars) ELSE s

\* s.strip()
Strip(s) == RStrip(LStrip(s, Whitespace), Whitespace)

\* w in s, for two str.
Contains(w, s) ==
    \E i \in 0..(Len(s) - Len(w)) : SubSeq(s, i + 1, i + Len(w)) = w

\* list(reversed(xs))
Reverse(xs) == [i \in 1..Len(xs) |-> xs[Len(xs) + 1 - i]]

-----------------------------------------------------------------------------
(* What yaml.safe_load returns: None, a str, a list or a dict. A dict keeps *)
(* the document's order: it is a sequence of <<key, value>> pairs.          *)

YNull == [kind |-> "null"]
YStr(s) == [kind |-> "str", val |-> s]
YList(xs) == [kind |-> "list", items |-> xs]
YDict(ps) == [kind |-> "dict", pairs |-> ps]

IsDict(v) == v.kind = "dict"
IsList(v) == v.kind = "list"

\* key in d
HasKey(d, k) == \E i \in 1..Len(d.pairs) : d.pairs[i][1] = k

\* d.get(k, default)
Get(d, k, default) ==
    IF HasKey(d, k)
    THEN d.pairs[CHOOSE i \in 1..Len(d.pairs) : d.pairs[i][1] = k][2]
    ELSE default

\* list(d.values())
Values(d) == [i \in 1..Len(d.pairs) |-> d.pairs[i][2]]

\* What `for x in v` yields for a loaded value, when v is iterable at all:
\* the items of a list, the keys of a dict, the characters of a str.
Iterable(v) == v.kind \in {"list", "dict", "str"}
Iter(v) ==
    CASE v.kind = "list" -> v.items
      [] v.kind = "dict" -> [i \in 1..Len(v.pairs) |-> YStr(<<v.pairs[i][1]>>)]
      [] v.kind = "str"  -> [i \in 1..Len(v.val) |-> YStr(<<v.val[i]>>)]
      [] OTHER -> <<>>

\* The str held by a loaded scalar field (id, text, answer); None for null.
AsStr(v) == IF v.kind = "str" THEN v.val ELSE None

\* [x for x in xs if isinstance(x, dict)]
OnlyDicts(xs) == SelectSeq(xs, IsDict)

-----------------------------------------------------------------------------
(* 1. Domain model: MenuItem. oid is the identity of the Python object, the *)
(* position at which _parse_item constructed it; no method reads it.        *)

MenuItem(id, text, answer, children, oid) ==
    [id |-> id, text |-> text, answer |-> answer, children |-> children,
     oid |-> oid]

\* find with `return child` for `return child.find(tail)`.
find_no_descent(self, path) ==
    IF path = <<>> THEN self
    ELSE LET hits == {i \in 1..Len(self.children) :
                         self.children[i].id = Head(path)}
         IN IF hits = {} THEN NoItem
            ELSE self.children[CHOOSE i \in hits : \A j \in hits : i <= j]

RECURSIVE find(_, _)
find(self, path) ==
    IF path = <<>> THEN self
    ELSE LET head == Head(path)
             tail == Tail(path)
             hits == {i \in 1..Len(self.children) : self.children[i].id = head}
         IN IF hits = {} THEN NoItem
            ELSE find(self.children[CHOOSE i \in hits : \A j \in hits : i <= j],
                      tail)

is_leaf(self) == self.children = <<>>

RECURSIVE breadcrumb_walk(_, _, _, _)
\* The while loop of breadcrumb and the statement after it: the parts list.
breadcrumb_walk(self, node, path, parts) ==
    IF node # NoItem /\ path # <<>>
    THEN LET shorter == SubSeq(path, 1, Len(path) - 1)
         IN breadcrumb_walk(self,
                            IF shorter # <<>> THEN find(self, shorter) ELSE NoItem,
                            shorter,
                            Append(parts, Strip(node.text)))
    ELSE IF node # NoItem THEN Append(parts, Strip(node.text)) ELSE parts

Separator == <<" ", "/", " ">>

breadcrumb(self, path) ==
    Join(Reverse(breadcrumb_walk(self, find(self, path), path, <<>>)), Separator)

-----------------------------------------------------------------------------
(* 2. Menu loader *)

\* MenuLoader.default_lang: DEFAULT_LANG is not set in the environment.
default_lang == "en"

RECURSIVE ParseRaises(_)
\* _parse_item(node) raises: node.get on a value that is no dict, or the
\* iteration of a children value that cannot be iterated, at any depth.
ParseRaises(node) ==
    \/ ~IsDict(node)
    \/ LET kids == Get(node, "children", YList(<<>>))
       IN \/ ~Iterable(kids)
          \/ \E i \in 1..Len(OnlyDicts(Iter(kids))) :
                ParseRaises(OnlyDicts(Iter(kids))[i])

RECURSIVE _parse_item(_, _)
_parse_item(node, oid) ==
    LET child_nodes == OnlyDicts(Iter(Get(node, "children", YList(<<>>))))
        children == [i \in 1..Len(child_nodes) |->
                        _parse_item(child_nodes[i], Append(oid, i))]
    IN MenuItem(AsStr(Get(node, "id", YStr(<<>>))),
                AsStr(Get(node, "text", YStr(<<>>))),
                AsStr(Get(node, "answer", YNull)),
                children,
                oid)

\* The branch of _load that selects the entries.
LoadBranch(raw) ==
    IF IsDict(raw) /\ IsList(Get(raw, "menu", YNull)) THEN "top"
    ELSE IF IsDict(raw) /\ HasKey(raw, default_lang) THEN "lang"
    ELSE "fallback"

\* The first dict value that holds a list under `menu`, [] when there is none.
FirstBlock(raw) ==
    LET vals == IF IsDict(raw) THEN Values(raw) ELSE <<>>
        hits == {i \in 1..Len(vals) :
                    IsDict(vals[i]) /\ IsList(Get(vals[i], "menu", YNull))}
    IN IF hits = {} THEN YList(<<>>)
       ELSE Get(vals[CHOOSE i \in hits : \A j \in hits : i <= j], "menu", YNull)

\* raw[default_lang].get raises when the block is no dict.
EntriesRaise(raw) ==
    LoadBranch(raw) = "lang" /\ ~IsDict(Get(raw, default_lang, YNull))

Entries(raw) ==
    CASE LoadBranch(raw) = "top"  -> Get(raw, "menu", YNull)
      [] LoadBranch(raw) = "lang" ->
            Get(Get(raw, default_lang, YNull), "menu", YList(<<>>))
      [] OTHER -> FirstBlock(raw)

\* _load raises: open() of a missing file, or one of the above.
LoadRaises(d) ==
    \/ ~d.exists
    \/ EntriesRaise(d.raw)
    \/ ~Iterable(Entries(d.raw))
    \/ \E i \in 1..Len(Iter(Entries(d.raw))) : ParseRaises(Iter(Entries(d.raw))[i])

_load(d) ==
    LET entries == Iter(Entries(d.raw))
    IN [i \in 1..Len(entries) |-> _parse_item(entries[i], <<i>>)]

get_root == forest

find_by_path_in(root_items, path) ==
    IF path = <<>> THEN NoItem
    ELSE LET hits == {i \in 1..Len(root_items) : root_items[i].id = path[1]}
         IN IF hits = {} THEN NoItem
            ELSE find(root_items[CHOOSE i \in hits : \A j \in hits : i <= j],
                      Tail(path))

find_by_path(path) == find_by_path_in(forest, path)

-----------------------------------------------------------------------------
(* 3. Keyboard factory *)

Delimiter == ":"

BACK_ROOT == <<"R", "O", "O", "T">>

\* The button labels, without their emoji.
NotifyLabel == <<"Notify Me">>
BackLabel == <<"Back">>

\* types.InlineKeyboardButton(text, callback_data=..., url=...)
InlineKeyboardButton(text, callback_data, url) ==
    [text |-> text, callback_data |-> callback_data, url |-> url]

\* build with the back token joined from parent_path, not parent_path[:-1].
build_back_to_self(parent_path, items) ==
    LET actions == [i \in 1..Len(items) |->
                       InlineKeyboardButton(
                           items[i].text,
                           Join(Append(parent_path, items[i].id), <<Delimiter>>),
                           None)]
        link == IF parent_path = <<>> /\ Truthy(channel)
                THEN <<InlineKeyboardButton(
                          NotifyLabel, None,
                          <<"https://t.me/">> \o LStrip(channel, {"@"}))>>
                ELSE <<>>
        back == IF parent_path # <<>>
                THEN <<InlineKeyboardButton(
                          BackLabel, Join(parent_path, <<Delimiter>>), None)>>
                ELSE <<>>
    IN actions \o link \o back

build(parent_path, items) ==
    LET actions == [i \in 1..Len(items) |->
                       InlineKeyboardButton(
                           items[i].text,
                           Join(Append(parent_path, items[i].id), <<Delimiter>>),
                           None)]
        link == IF parent_path = <<>> /\ Truthy(channel)
                THEN <<InlineKeyboardButton(
                          NotifyLabel, None,
                          <<"https://t.me/">> \o LStrip(channel, {"@"}))>>
                ELSE <<>>
        prev == SubSeq(parent_path, 1, Len(parent_path) - 1)
        prev_cb == IF prev # <<>> THEN Join(prev, <<Delimiter>>) ELSE BACK_ROOT
        back == IF parent_path # <<>>
                THEN <<InlineKeyboardButton(BackLabel, prev_cb, None)>>
                ELSE <<>>
    IN actions \o link \o back

-----------------------------------------------------------------------------
(* 4. Bot orchestrator. A message is [text, kb]: what the chat displays.    *)

welcome ==
    <<"<b>Welcome to TerminJetzt Heilbronn!</b>\n",
      "Use the buttons below to explore appointment info, docs, and FAQs.">>

Sorry == <<"Sorry, I didn't get that. Please use the menu.">>

\* The message on_start sends.
on_start == [text |-> welcome, kb |-> build(<<>>, get_root)]

\* _show_menu with `items = node.children if node else ()`.
_show_menu_no_roots(msg, path) ==
    LET node == IF path # <<>> THEN find_by_path(path) ELSE NoItem
        items == IF node # NoItem THEN node.children ELSE <<>>
    IN [msg EXCEPT !.kb = build(path, items)]

\* _show_menu with edit_message_text of the welcome text for
\* edit_message_reply_markup.
_show_menu_reset_text(msg, path) ==
    LET node == IF path # <<>> THEN find_by_path(path) ELSE NoItem
        items == IF node # NoItem THEN node.children ELSE get_root
    IN [text |-> welcome, kb |-> build(path, items)]

\* bot.edit_message_reply_markup: the keyboard alone.
_show_menu(msg, path) ==
    LET node == IF path # <<>> THEN find_by_path(path) ELSE NoItem
        items == IF node # NoItem THEN node.children ELSE get_root
    IN [msg EXCEPT !.kb = build(path, items)]

\* f"<b>{title}</b>\n\n{answer}"
AnswerText(title, answer) ==
    <<"<", "b", ">">> \o title \o <<"<", "/", "b", ">", "\n", "\n">> \o answer

\* The message after on_callback(call), call.data = data on message msg.
on_callback(msg, data) ==
    LET d == IF Truthy(data) THEN data ELSE BACK_ROOT
        path == Split(d, Delimiter)
        item == find_by_path(path)
    IN IF d = BACK_ROOT THEN _show_menu(msg, <<>>)
       ELSE IF item = NoItem THEN _show_menu(msg, <<>>)
       ELSE IF is_leaf(item) /\ Truthy(item.answer)
       THEN [text |-> AnswerText(breadcrumb(item, path), item.answer),
             kb |-> build(path, <<>>)]
       ELSE _show_menu(msg, path)

RECURSIVE _iterate_leaves(_)
_iterate_leaves(item) ==
    IF is_leaf(item) THEN <<item>>
    ELSE LET RECURSIVE Kids(_)
             Kids(i) == IF i > Len(item.children) THEN <<>>
                        ELSE _iterate_leaves(item.children[i]) \o Kids(i + 1)
         IN Kids(1)

RECURSIVE LeavesFrom(_, _)
\* The leaves _search visits, in its order: root by root.
LeavesFrom(roots, i) ==
    IF i > Len(roots) THEN <<>>
    ELSE _iterate_leaves(roots[i]) \o LeavesFrom(roots, i + 1)

\* _search with `w in leaf.answer` for `w in leaf.answer.lower()`.
_search_case_sensitive(query) ==
    LET q_words == SplitWords(Lower(query))
        leaves == LeavesFrom(get_root, 1)
        hits == {i \in 1..Len(leaves) :
                    /\ Truthy(leaves[i].answer)
                    /\ \E k \in 1..Len(q_words) :
                          Contains(q_words[k], leaves[i].answer)}
    IN IF hits = {} THEN None
       ELSE leaves[CHOOSE i \in hits : \A j \in hits : i <= j].answer

\* The body of _search, without its cache.
_search(query) ==
    LET q_words == SplitWords(Lower(query))
        leaves == LeavesFrom(get_root, 1)
        hits == {i \in 1..Len(leaves) :
                    /\ Truthy(leaves[i].answer)
                    /\ \E k \in 1..Len(q_words) :
                          Contains(q_words[k], Lower(leaves[i].answer))}
    IN IF hits = {} THEN None
       ELSE leaves[CHOOSE i \in hits : \A j \in hits : i <= j].answer

-----------------------------------------------------------------------------
(* functools.lru_cache around _search: a list of [key, value], the most     *)
(* recently used first. Its capacity (128 in the source) is scaled to       *)
(* CacheSize so that the eviction of a full cache is within reach.          *)

CacheSize == 2

CacheKeys(c) == {c[i].key : i \in 1..Len(c)}

CacheAt(c, k) == CHOOSE i \in 1..Len(c) : c[i].key = k

\* The value a call returns: the stored one on a hit, else a fresh search.
lru_value(c, k) ==
    IF k \in CacheKeys(c) THEN c[CacheAt(c, k)].value ELSE _search(k)

\* An eviction that drops the entry used most recently, not least.
lru_after_evict_newest(c, k) ==
    IF k \in CacheKeys(c)
    THEN <<c[CacheAt(c, k)]>> \o SelectSeq(c, LAMBDA e : e.key # k)
    ELSE <<[key |-> k, value |-> _search(k)]>> \o
         (IF Len(c) >= CacheSize THEN SubSeq(c, 2, Len(c)) ELSE c)

\* The cache after the call: a hit moves the entry to the front; a miss
\* stores the result at the front and, when full, drops the entry at the end.
lru_after(c, k) ==
    IF k \in CacheKeys(c)
    THEN <<c[CacheAt(c, k)]>> \o SelectSeq(c, LAMBDA e : e.key # k)
    ELSE <<[key |-> k, value |-> _search(k)]>> \o
         (IF Len(c) >= CacheSize THEN SubSeq(c, 1, CacheSize - 1) ELSE c)

-----------------------------------------------------------------------------
(* The configuration documents the model loads. *)

sA == <<"a">>
sB == <<"b">>
sAB == <<"a", ":", "b">>

Absent == [kind |-> "absent"]
Present(p) == p[2] # Absent

\* A menu entry with the fields that are given.
Entry(id, text, answer, children) ==
    YDict(SelectSeq(<< <<"id", id>>, <<"text", text>>, <<"answer", answer>>,
                       <<"children", children>> >>, Present))

GrandChild == Entry(YStr(sA), YStr(<<"D">>), YStr(<<"X", " ", "y">>), Absent)

\* A non-leaf with an answer of its own.
SubMenu ==
    Entry(YStr(sB), YStr(<<"C">>), YStr(<<"q">>), YList(<<GrandChild>>))

FirstRoot(id, cid, canswer) ==
    Entry(YStr(id), YStr(<<"A">>), Absent,
          YList(<<Entry(YStr(cid), YStr(<<"B", " ">>), canswer, Absent),
                  SubMenu>>))

\* No second root, one that may repeat the identifier of the first, and one
\* whose answer is empty.
SecondRoots ==
    { <<>>,
      <<Entry(YStr(sA), YStr(<<"E">>), YStr(<<"y", " ", "w">>), Absent)>>,
      <<Entry(YStr(sB), YStr(<<"E">>), YStr(<<>>), Absent)>> }

\* The well-formed menus: identifiers that are plain, empty, the sentinel or
\* hold the delimiter; siblings with equal identifiers; leaves without answer.
Menus ==
    {<<FirstRoot(id, cid, ca)>> \o second :
        id \in {sA, <<>>, BACK_ROOT, sAB}, cid \in {sA, sB},
        ca \in {Absent, YStr(<<"z">>)}, second \in SecondRoots}

Leaf == Entry(YStr(sA), YStr(<<"A">>), YStr(<<"z">>), Absent)

\* Menus with malformed entries.
MalformedMenus ==
    { <<YStr(<<"s">>)>>,
      <<Entry(Absent, Absent, YStr(<<"z">>), Absent)>>,
      <<Entry(YStr(sA), YStr(<<"A">>), Absent, YStr(<<"a", "b">>))>>,
      <<Entry(YStr(sA), YStr(<<"A">>), Absent, YNull)>>,
      <<Entry(YStr(sA), YStr(<<"A">>), Absent, YList(<<YStr(<<"s">>), Leaf>>))>>,
      <<Entry(YStr(sA), YStr(<<"A">>), Absent, YDict(<< <<"id", YStr(sB)>> >>))>> }

Menu1 == <<FirstRoot(sA, sA, YStr(<<"z">>))>>
Menu2 == <<Leaf>>

Block(m) == YDict(<< <<"menu", YList(m)>> >>)

\* The shapes of document around a menu list.
Wrapped(m, other) ==
    { YDict(<< <<"menu", YList(m)>> >>),
      YDict(<< <<"en", Block(m)>> >>),
      YDict(<< <<"de", Block(m)>> >>),
      YDict(<< <<"en", Block(other)>>, <<"menu", YList(m)>> >>),
      YDict(<< <<"de", Block(other)>>, <<"en", Block(m)>> >>),
      YDict(<< <<"fr", YStr(<<"s">>)>>, <<"de", Block(m)>>, <<"it", Block(other)>> >>),
      YDict(<< <<"en", YDict(<<>>)>>, <<"de", Block(m)>> >>),
      YDict(<< <<"en", YStr(<<"s">>)>>, <<"de", Block(m)>> >>),
      YDict(<< <<"en", YDict(<< <<"menu", YNull>> >>)>>, <<"de", Block(m)>> >>),
      YDict(<< <<"en", YDict(<< <<"menu", YStr(<<"s">>)>> >>)>> >>),
      YDict(<< <<"menu", YStr(<<"s">>)>>, <<"de", Block(m)>> >>),
      YDict(<< <<"de", YDict(<< <<"menu", YStr(<<"s">>)>> >>)>> >>),
      YList(m) }

RawDocuments ==
    {YDict(<< <<"menu", YList(m)>> >>) : m \in Menus \cup MalformedMenus}
    \cup Wrapped(Menu1, Menu2) \cup Wrapped(Menu2, Menu1)
    \cup {YNull, YDict(<<>>)}

File(raw) == [exists |-> TRUE, raw |-> raw]
Missing == [exists |-> FALSE, raw |-> YNull]

Documents == {File(raw) : raw \in RawDocuments} \cup {Missing}

Channels == {None, <<"@", "c">>}

\* The texts of the free-text messages; None is a message without text.
Queries == {None, <<"X", " ", "z">>, <<"W">>, <<"q">>}

\* Tokens a press may carry that no current keyboard holds: stale or foreign.
StaleTokens ==
    {None, <<>>, BACK_ROOT, <<"a", ":", "b", ":", "a">>, <<"a", ":", "q">>}

\* The tokens of the action buttons a message shows.
ButtonTokens(msg) ==
    {msg.kb[i].callback_data : i \in {j \in 1..Len(msg.kb) : msg.kb[j].url = None}}

MaxMsgs == 2

-----------------------------------------------------------------------------
(* The state machine *)

Init ==
    /\ pc = "boot"
    /\ doc \in Documents
    /\ channel \in Channels
    /\ forest = <<>>
    /\ msgs = <<>>
    /\ hist = <<>>
    /\ asked = {}
    /\ cache = <<>>
    /\ reply = None

\* MenuLoader.__init__: self.root_items = self._load()
Load ==
    /\ pc = "boot"
    /\ IF LoadRaises(doc)
       THEN pc' = "crashed" /\ forest' = forest
       ELSE pc' = "run" /\ forest' = _load(doc)
    /\ UNCHANGED <<doc, channel, msgs, hist, asked, cache, reply>>

\* on_start: send_message(welcome, reply_markup=kb)
OnStart ==
    /\ pc = "run"
    /\ Len(msgs) < MaxMsgs
    /\ msgs' = Append(msgs, on_start)
    /\ hist' = Append(hist, [kind |-> "start", ans |-> None])
    /\ UNCHANGED <<pc, doc, channel, forest, asked, cache, reply>>

\* The kind of press a token makes: the root sentinel, no token, a token
\* that resolves to nothing, to a leaf with an answer, or to another node.
PressKind(data) ==
    IF data = BACK_ROOT THEN "sentinel"
    ELSE IF ~Truthy(data) THEN "empty"
    ELSE LET item == find_by_path(Split(data, Delimiter))
         IN IF item = NoItem THEN "unknown"
            ELSE IF item.children = <<>> /\ Truthy(item.answer) THEN "answer"
            ELSE "menu"

\* on_callback for a press on message i carrying data.
OnCallback(i, data) ==
    /\ pc = "run"
    /\ msgs' = [msgs EXCEPT ![i] = on_callback(msgs[i], data)]
    /\ hist' = [hist EXCEPT ![i] =
                    [kind |-> PressKind(data),
                     ans |-> IF PressKind(data) = "answer" THEN data ELSE @.ans]]
    /\ UNCHANGED <<pc, doc, channel, forest, asked, cache, reply>>

\* on_fallback for a message with text q.
OnFallback(q) ==
    /\ pc = "run"
    /\ LET text == IF Truthy(q) THEN q ELSE <<>>
           answer == lru_value(cache, text)
       IN /\ cache' = lru_after(cache, text)
          /\ reply' = IF Truthy(answer) THEN answer ELSE Sorry
          /\ asked' = asked \cup {text}
    /\ UNCHANGED <<pc, doc, channel, forest, msgs, hist>>

Next ==
    \/ Load
    \/ OnStart
    \/ \E i \in 1..Len(msgs) :
          \E data \in ButtonTokens(msgs[i]) \cup StaleTokens : OnCallback(i, data)
    \/ \E q \in Queries : OnFallback(q)

Spec == Init /\ [][Next]_vars

\* The handlers of the menu write msgs and hist only, the free-text handler
\* cache, asked and reply only, and neither reads what the other writes: each
\* side is also checked on its own, where larger bounds stay within reach.
NextMenu ==
    \/ Load
    \/ OnStart
    \/ \E i \in 1..Len(msgs) :
          \E data \in ButtonTokens(msgs[i]) \cup StaleTokens : OnCallback(i, data)

SpecMenu == Init /\ [][NextMenu]_vars

NextText ==
    \/ Load
    \/ \E q \in Queries : OnFallback(q)

SpecText == Init /\ [][NextText]_vars

-----------------------------------------------------------------------------
(* The forest seen from outside the code: positions, walks, siblings. *)

RECURSIVE Descendants(_)
\* An item and all the items below it.
Descendants(item) ==
    {item} \cup UNION {Descendants(item.children[i]) : i \in 1..Len(item.children)}

Nodes == UNION {Descendants(forest[i]) : i \in 1..Len(forest)}

RECURSIVE Below(_, _)
\* The item reached from `item` by a sequence of child indices.
Below(item, ip) ==
    IF ip = <<>> THEN item ELSE Below(item.children[Head(ip)], Tail(ip))

\* The item at a position: a root index, then child indices.
NodeAt(ip) == Below(forest[Head(ip)], Tail(ip))

Positions == {n.oid : n \in Nodes}

\* The identifiers met on the walk to a position.
IdPath(ip) == [k \in 1..Len(ip) |-> NodeAt(SubSeq(ip, 1, k)).id]

\* The stripped display texts met on the walk to a position.
TextPath(ip) == [k \in 1..Len(ip) |-> Strip(NodeAt(SubSeq(ip, 1, k)).text)]

Distinct(items) ==
    \A i, j \in 1..Len(items) : items[i].id = items[j].id => i = j

\* Identifiers are unique among siblings, at every level.
UniqueSiblings == Distinct(forest) /\ \A n \in Nodes : Distinct(n.children)

\* p comes before q in depth-first order.
LexLess(p, q) ==
    \E k \in 1..Len(p) :
        /\ k <= Len(q)
        /\ SubSeq(p, 1, k - 1) = SubSeq(q, 1, k - 1)
        /\ p[k] < q[k]

-----------------------------------------------------------------------------
(* Claims *)

\* C1: with identifiers unique among siblings, resolving the identifiers met
\* on the walk to any position of the forest returns the very item at that
\* position: not "not found", not another item.
C1_ResolveWalk ==
    (pc = "run" /\ UniqueSiblings) =>
        \A ip \in Positions : find_by_path(IdPath(ip)) = NodeAt(ip)

\* A forest with unique siblings and two roots, where a walk of three steps
\* resolves to the item at its end.
C1_Witness ==
    /\ pc = "run"
    /\ UniqueSiblings
    /\ Len(forest) = 2
    /\ \E ip \in Positions :
          Len(ip) = 3 /\ find_by_path(IdPath(ip)) = NodeAt(ip)

\* The text on_callback is to display for the answer leaf at position ip: the
\* display texts from the root to the leaf joined by " / ", then the answer.
HeadingOf(ip) == Join(TextPath(ip), Separator)

\* C2: after a press that resolves to a leaf with a non-empty answer, the
\* heading displayed is the display texts of the items on the walk from the
\* root to that leaf, one per level, joined by " / " in root-to-leaf order.
C2_BreadcrumbHeading ==
    \A i \in 1..Len(msgs) :
        (UniqueSiblings /\ hist[i].kind = "answer") =>
            LET leaf == find_by_path(Split(hist[i].ans, Delimiter))
            IN msgs[i].text = AnswerText(HeadingOf(leaf.oid), leaf.answer)

\* C3: after a press whose token is the root sentinel, is empty or resolves
\* to nothing, the message carries the keyboard the start command sends.
C3_RootFallback ==
    \A i \in 1..Len(msgs) :
        hist[i].kind \in {"sentinel", "empty", "unknown"} =>
            msgs[i].kb = on_start.kb

\* A message that showed an answer and then took a press with a token that
\* resolves to nothing, in a forest with roots to show.
C3_Witness ==
    \E i \in 1..Len(msgs) :
        /\ hist[i].kind = "unknown"
        /\ hist[i].ans # None
        /\ forest # <<>>
        /\ msgs[i].kb = on_start.kb

\* The non-empty paths and the item lists the keyboards are checked for: the
\* path of every item with its children and with the empty list, and paths
\* that hold an empty identifier.
KeyboardCases ==
    {<<IdPath(n.oid), n.children>> : n \in Nodes}
    \cup {<<IdPath(n.oid), <<>> >> : n \in Nodes}
    \cup {<< <<<<>>>>, forest>>, << <<<<>>, sA>>, forest>>}

\* C4: for a non-empty path P and an item list, build gives one action button
\* per item, in order, with token P extended by the item's identifier, then
\* as last button the back button with token P without its last identifier,
\* or the root sentinel when nothing remains; and no link button.
C4_NonRootKeyboard ==
    pc = "run" =>
        \A c \in KeyboardCases :
            LET P == c[1]
                items == c[2]
                kb == build(P, items)
                rest == SubSeq(P, 1, Len(P) - 1)
            IN /\ Len(kb) = Len(items) + 1
               /\ \A k \in 1..Len(items) :
                     /\ kb[k].text = items[k].text
                     /\ kb[k].callback_data = Join(P \o <<items[k].id>>, <<Delimiter>>)
               /\ kb[Len(kb)].text = BackLabel
               /\ kb[Len(kb)].callback_data =
                     (IF rest = <<>> THEN BACK_ROOT ELSE Join(rest, <<Delimiter>>))
               /\ \A k \in 1..Len(kb) : kb[k].url = None

\* A message that shows a submenu of two items and the back button, with a
\* channel configured.
C4_Witness ==
    /\ Truthy(channel)
    /\ \E i \in 1..Len(msgs) :
          /\ hist[i].kind = "menu"
          /\ Len(msgs[i].kb) = 3
          /\ msgs[i].kb[3].text = BackLabel

\* The leaves of the forest.
LeafNodes == {n \in Nodes : n.children = <<>>}

\* The words of a message text, lower case.
WordsOf(q) == {SplitWords(Lower(q))[k] : k \in 1..Len(SplitWords(Lower(q)))}

\* Word w is found in the answer of leaf n, case-insensitively.
FoundIn(w, n) == Truthy(n.answer) /\ Contains(w, Lower(n.answer))

\* The text of the last free-text message: the most recently used key.
LastQuery == cache[1].key

\* C5 as stated: when a word of the message is found in exactly one leaf's
\* answer the reply is that leaf's answer, whatever the other words; when no
\* word matches any leaf's answer the reply is the fallback message.
C5_ExactlyOneLeaf ==
    cache # <<>> =>
        /\ \A w \in WordsOf(LastQuery) : \A n \in LeafNodes :
              (FoundIn(w, n) /\ \A m \in LeafNodes : FoundIn(w, m) => m = n)
                  => reply = n.answer
        /\ (\A w \in WordsOf(LastQuery) : \A n \in LeafNodes : ~FoundIn(w, n))
              => reply = Sorry

\* The leaves whose answer holds some word of the message.
Matching(q) == {n \in LeafNodes : \E w \in WordsOf(q) : FoundIn(w, n)}

\* C5 amended: the reply is the answer of the first leaf, in depth-first
\* order, whose answer holds any word of the message; and the fallback
\* message when no leaf's answer holds a word of it.
C5_FirstMatch ==
    cache # <<>> =>
        IF Matching(LastQuery) = {} THEN reply = Sorry
        ELSE \E n \in Matching(LastQuery) :
                /\ \A m \in Matching(LastQuery) : m = n \/ LexLess(n.oid, m.oid)
                /\ reply = n.answer

\* A message whose words are found in two leaves with different answers,
\* answered with the answer of the first.
C5_Witness ==
    /\ cache # <<>>
    /\ \E n, m \in Matching(LastQuery) :
          LexLess(n.oid, m.oid) /\ n.answer # m.answer /\ reply = n.answer

\* A value holds a list of menu entries under `menu`.
HoldsList(v) == IsDict(v) /\ IsList(Get(v, "menu", YNull))

\* The entries the stated policy selects: (a) the top-level list, else (b)
\* the list of the preferred-language block, else (c) the list of the first
\* block in document order that holds one, else none.
PolicyEntries(raw) ==
    IF HoldsList(raw) THEN Get(raw, "menu", YNull).items
    ELSE IF IsDict(raw) /\ HoldsList(Get(raw, default_lang, YNull))
    THEN Get(Get(raw, default_lang, YNull), "menu", YNull).items
    ELSE IF IsDict(raw) /\ \E i \in 1..Len(raw.pairs) : HoldsList(raw.pairs[i][2])
    THEN Get(raw.pairs[CHOOSE i \in 1..Len(raw.pairs) :
                          /\ HoldsList(raw.pairs[i][2])
                          /\ \A j \in 1..(i - 1) : ~HoldsList(raw.pairs[j][2])][2],
             "menu", YNull).items
    ELSE <<>>

\* C6: the forest is built from the first source that matches, in the order
\* (a), (b), (c), and is empty when none matches; a preferred-language block
\* without a list does not keep (c) from being used.
C6_SourcePriority ==
    pc = "run" =>
        forest = [i \in 1..Len(PolicyEntries(doc.raw)) |->
                     _parse_item(PolicyEntries(doc.raw)[i], <<i>>)]

\* C7: loading never ends in an error: a missing source gives the empty
\* forest, and an item loaded from an entry without id or text has the empty
\* string there.
C7_LoadNeverRaises ==
    pc # "boot" =>
        /\ pc = "run"
        /\ ~doc.exists => forest = <<>>
        /\ \A n \in Nodes : n.id # None /\ n.text # None

\* The reply on_fallback gives for a search result.
ReplyFor(answer) == IF Truthy(answer) THEN answer ELSE Sorry

\* C8 as stated: the cache is append-only, so every text looked up earlier
\* is still cached.
C8_AppendOnly == asked \subseteq CacheKeys(cache)

\* C8 amended: the cache holds at most its capacity; a step never changes
\* the value stored for a text; it removes an entry only when it stores a
\* text that was not cached into a full cache, and then the one entry used
\* least recently; and the reply to a text, cached or not, is the one its
\* first lookup gave.
C8_BoundedLru ==
    [][/\ Len(cache') <= CacheSize
       /\ \A i \in 1..Len(cache) : \A j \in 1..Len(cache') :
             cache[i].key = cache'[j].key => cache[i].value = cache'[j].value
       /\ \A k \in CacheKeys(cache) \ CacheKeys(cache') :
             /\ Len(cache) = CacheSize
             /\ k = cache[Len(cache)].key
             /\ CacheKeys(cache') \ CacheKeys(cache) # {}
             /\ Cardinality(CacheKeys(cache) \ CacheKeys(cache')) = 1
       /\ asked' # asked \/ cache' # cache =>
             /\ cache' # <<>>
             /\ cache'[1].value = _search(cache'[1].key)
             /\ reply' = ReplyFor(_search(cache'[1].key))]_vars

\* A full cache from which a text looked up earlier has been evicted.
C8_Witness ==
    /\ Len(cache) = CacheSize
    /\ asked \ CacheKeys(cache) # {}
    /\ reply = ReplyFor(cache[1].value)

\* C9: a press that leads to a menu view leaves the text alone and only a
\* press on a leaf with an answer sets it: the text of a message is the
\* welcome text until such a press, and from then on the heading and answer
\* shown for the last such press, whatever its keyboard shows now.
C9_TextFrame ==
    \A i \in 1..Len(msgs) :
        msgs[i].text =
            IF hist[i].ans = None THEN welcome
            ELSE LET path == Split(hist[i].ans, Delimiter)
                     leaf == find_by_path(path)
                 IN AnswerText(breadcrumb(leaf, path), leaf.answer)

\* A message that shows the answer of a leaf pressed earlier above the
\* keyboard of a submenu opened since.
C9_Witness ==
    \E i \in 1..Len(msgs) :
        /\ hist[i].kind = "menu"
        /\ hist[i].ans # None
        /\ msgs[i].text # welcome
        /\ Len(msgs[i].kb) >= 2

\* The view of the item at position ip: its answer under its heading with
\* the back button alone, or its children as the keyboard.
OwnView(msg, ip) ==
    LET n == NodeAt(ip)
    IN IF n.children = <<>> /\ Truthy(n.answer)
       THEN msg.kb = build(IdPath(ip), <<>>) /\
            \E k \in 0..(Len(msg.text) - Len(n.answer)) :
                SubSeq(msg.text, k + 1, Len(msg.text)) = n.answer
       ELSE msg.kb = build(IdPath(ip), n.children)

\* The token of the action button build emits for the item at position ip,
\* on the keyboard of its parent.
TokenOf(ip) ==
    LET parent == SubSeq(ip, 1, Len(ip) - 1)
        items == IF parent = <<>> THEN forest ELSE NodeAt(parent).children
    IN build(IdPath(parent), items)[ip[Len(ip)]].callback_data

\* C10: the token emitted for any item the loader produced, echoed back in
\* a press, parses to the item's path, resolves to that item and shows its
\* own view; also for identifiers that are empty, equal the sentinel or hold
\* the delimiter.
C10_TokenRoundTrip ==
    \A i \in 1..Len(msgs) : \A ip \in Positions :
        /\ Split(TokenOf(ip), Delimiter) = IdPath(ip)
        /\ find_by_path(Split(TokenOf(ip), Delimiter)) = NodeAt(ip)
        /\ OwnView(on_callback(msgs[i], TokenOf(ip)), ip)

====
